---- MODULE Spec2Model ----
(***************************************************************************)
(* Model of nautobot/utilities/forms/forms.py: the form classes, their     *)
(* constructors and their clean() methods, run inside Django's form        *)
(* pipeline (construction, then full_clean: _clean_fields, _clean_form,    *)
(* _post_clean).                                                           *)
(*                                                                         *)
(* Text is a sequence of one-character strings.  A submitted body is a     *)
(* sequence of lines joined by newlines.                                   *)
(***************************************************************************)
EXTENDS Integers, Sequences, FiniteSets, TLC

\* ------------------------------------------------------------------ bounds
MaxLines == 3
MaxFind == 3
MaxFormsets == 2

\* ------------------------------------------------------------------ text
NL == "\n"
Ws == {" ", "\n"}
Digits == {"0", "1", "2", "3", "4", "5", "6", "7", "8", "9"}

Min(S) == CHOOSE x \in S : \A y \in S : x <= y

\* str.strip(): the text without its leading and trailing whitespace.
Strip(s) ==
    LET keep == {i \in 1..Len(s) : s[i] \notin Ws}
    IN  IF keep = {} THEN <<>>
        ELSE SubSeq(s, Min(keep), CHOOSE x \in keep : \A y \in keep : y <= x)

\* `pat in s` for Python strings.
Contains(s, pat) ==
    \E i \in 1..(Len(s) - Len(pat) + 1) : SubSeq(s, i, i + Len(pat) - 1) = pat

StartsWith(s, pat) == Len(s) >= Len(pat) /\ SubSeq(s, 1, Len(pat)) = pat

RECURSIVE JoinLines(_)
\* "\n".join(lines)
JoinLines(ls) ==
    IF ls = <<>> THEN <<>>
    ELSE IF Len(ls) = 1 THEN ls[1]
    ELSE ls[1] \o <<NL>> \o JoinLines(Tail(ls))

RECURSIVE SplitLines(_)
\* s.split("\n")
SplitLines(s) ==
    LET brk == {i \in 1..Len(s) : s[i] = NL}
    IN  IF brk = {} THEN <<s>>
        ELSE <<SubSeq(s, 1, Min(brk) - 1)>> \o SplitLines(SubSeq(s, Min(brk) + 1, Len(s)))

\* First position >= i of s that holds no whitespace (Len(s) + 1 at the end).
SkipWs(s, i) == Min({j \in i..(Len(s) + 1) : j = Len(s) + 1 \/ s[j] \notin Ws})

\* ------------------------------------------------------------------ values
\* A decoded Python value: [type, v].
PyNone == [type |-> "null", v |-> <<>>]
PyInt(n) == [type |-> "int", v |-> n]
PyStr(s) == [type |-> "str", v |-> s]
PyList(xs) == [type |-> "list", v |-> xs]
PyDict(kvs) == [type |-> "dict", v |-> kvs]
\* isinstance(x, dict)
IsDict(x) == x.type = "dict"

\* ------------------------------------------------------------------ json.loads
Fail == [ok |-> FALSE, val |-> PyNone, next |-> 0]
Ok(val, next) == [ok |-> TRUE, val |-> val, next |-> next]

DigitVal(c) == CHOOSE n \in 0..9 : <<"0", "1", "2", "3", "4", "5", "6", "7", "8", "9">>[n + 1] = c

RECURSIVE DigitsValue(_, _)
DigitsValue(s, acc) ==
    IF s = <<>> THEN acc ELSE DigitsValue(Tail(s), acc * 10 + DigitVal(s[1]))

\* A number at position i: an optional minus sign and digits.
JsonNumber(s, i) ==
    LET neg == s[i] = "-"
        b == IF neg THEN i + 1 ELSE i
        e == Min({j \in b..(Len(s) + 1) : j = Len(s) + 1 \/ s[j] \notin Digits})
    IN  IF e = b THEN Fail
        ELSE Ok(PyInt((IF neg THEN -1 ELSE 1) * DigitsValue(SubSeq(s, b, e - 1), 0)), e)

\* A string whose opening quote is at position i - 1; no control characters inside.
JsonString(s, i) ==
    LET q == {j \in i..Len(s) : s[j] = "\""}
    IN  IF q = {} THEN Fail
        ELSE IF \E j \in i..(Min(q) - 1) : s[j] = NL THEN Fail
        ELSE Ok(PyStr(SubSeq(s, i, Min(q) - 1)), Min(q) + 1)

RECURSIVE JsonValue(_, _)
RECURSIVE JsonArray(_, _, _)
RECURSIVE JsonObject(_, _, _)

\* The elements of an array from position i on; acc holds those read so far.
JsonArray(s, i, acc) ==
    LET j == SkipWs(s, i)
    IN  IF j > Len(s) THEN Fail
        ELSE IF s[j] = "]" /\ acc = <<>> THEN Ok(PyList(acc), j + 1)
        ELSE LET r == JsonValue(s, j)
                 k == SkipWs(s, r.next)
             IN  IF ~r.ok \/ k > Len(s) THEN Fail
                 ELSE IF s[k] = "]" THEN Ok(PyList(Append(acc, r.val)), k + 1)
                 ELSE IF s[k] = "," THEN
                      (IF SkipWs(s, k + 1) <= Len(s) /\ s[SkipWs(s, k + 1)] = "]" THEN Fail
                       ELSE JsonArray(s, k + 1, Append(acc, r.val)))
                 ELSE Fail

\* The members of an object from position i on; acc holds those read so far.
JsonObject(s, i, acc) ==
    LET j == SkipWs(s, i)
    IN  IF j > Len(s) THEN Fail
        ELSE IF s[j] = "}" /\ acc = <<>> THEN Ok(PyDict(acc), j + 1)
        ELSE IF s[j] # "\"" THEN Fail
        ELSE LET key == JsonString(s, j + 1)
                 c == SkipWs(s, key.next)
             IN  IF ~key.ok \/ c > Len(s) THEN Fail
                 ELSE IF s[c] # ":" THEN Fail
                 ELSE LET r == JsonValue(s, c + 1)
                          k == SkipWs(s, r.next)
                          kvs == Append(acc, <<key.val.v, r.val>>)
                      IN  IF ~r.ok \/ k > Len(s) THEN Fail
                          ELSE IF s[k] = "}" THEN Ok(PyDict(kvs), k + 1)
                          ELSE IF s[k] = "," THEN JsonObject(s, k + 1, kvs)
                          ELSE Fail

JsonValue(s, i) ==
    LET j == SkipWs(s, i)
    IN  IF j > Len(s) THEN Fail
        ELSE IF s[j] = "{" THEN JsonObject(s, j + 1, <<>>)
        ELSE IF s[j] = "[" THEN JsonArray(s, j + 1, <<>>)
        ELSE IF s[j] = "\"" THEN JsonString(s, j + 1)
        ELSE IF s[j] = "-" \/ s[j] \in Digits THEN JsonNumber(s, j)
        ELSE IF StartsWith(SubSeq(s, j, Len(s)), <<"n", "u", "l", "l">>) THEN Ok(PyNone, j + 4)
        ELSE Fail

\* json.loads(s): [ok, val]; ~ok stands for json.decoder.JSONDecodeError.
json_loads(s) ==
    LET r == JsonValue(s, 1)
    IN  IF r.ok /\ SkipWs(s, r.next) > Len(s) THEN [ok |-> TRUE, val |-> r.val]
        ELSE [ok |-> FALSE, val |-> PyNone]

\* ------------------------------------------------------------------ yaml.load
\* yaml.load(s, Loader=yaml.SafeLoader) on block-style text read line by line.
\* The shape of a line:
LineKind(l) ==
    IF Strip(l) = <<>> THEN "blank"
    ELSE IF l = <<"-", "-", "-">> \/ StartsWith(l, <<"-", "-", "-", " ">>) THEN "doc"
    ELSE IF StartsWith(l, <<"-", " ">>) THEN "item"
    ELSE IF l[1] \in {"{", "["} THEN "flow"
    ELSE IF l[1] = "\"" THEN "quoted"
    ELSE IF Contains(l, <<":", " ">>) \/ l[Len(l)] = ":" THEN "kv"
    ELSE "plain"

\* A plain scalar as the resolver types it: an integer, null, or a string.
YamlScalar(t) ==
    IF t # <<>> /\ \A i \in 1..Len(t) : t[i] \in Digits THEN PyInt(DigitsValue(t, 0))
    ELSE IF t = <<"n", "u", "l", "l">> \/ t = <<>> THEN PyNone
    ELSE PyStr(t)

\* The entry of a "key: value" line.
YamlEntry(l) ==
    LET c == Min({i \in 1..Len(l) : l[i] = ":"})
    IN  <<SubSeq(l, 1, c - 1), YamlScalar(Strip(SubSeq(l, c + 1, Len(l))))>>

\* [ok, val]; ~ok stands for yaml.error.YAMLError (scanner, parser or composer).
yaml_load(s) ==
    LET all == SplitLines(s)
        ls == SelectSeq(all, LAMBDA l : LineKind(l) # "blank")
        kind == [i \in 1..Len(ls) |-> LineKind(ls[i])]
        explicit == ls # <<>> /\ kind[1] = "doc"
        c == IF explicit THEN Tail(ls) ELSE ls
        ck == [i \in 1..Len(c) |-> LineKind(c[i])]
        bad == [ok |-> FALSE, val |-> PyNone]
        good(v) == [ok |-> TRUE, val |-> v]
    IN  IF \E i \in 1..Len(c) : ck[i] = "doc" THEN bad  \* a second document
        ELSE IF c = <<>> THEN good(PyNone)
        ELSE IF ck[1] = "kv" THEN
             (IF \A i \in 1..Len(c) : ck[i] = "kv"
              THEN good(PyDict([i \in 1..Len(c) |-> YamlEntry(c[i])])) ELSE bad)
        ELSE IF ck[1] = "item" THEN
             (IF \A i \in 1..Len(c) : ck[i] = "item"
              THEN good(PyList([i \in 1..Len(c) |-> YamlScalar(Strip(SubSeq(c[i], 3, Len(c[i]))))]))
              ELSE bad)
        ELSE IF ck[1] \in {"flow", "quoted"} THEN
             (IF Len(c) = 1 /\ json_loads(c[1]).ok THEN good(json_loads(c[1]).val) ELSE bad)
        ELSE \* a plain scalar, folded over the lines that follow
             (IF \E i \in 2..Len(c) : ck[i] = "kv" THEN bad
              ELSE IF Len(c) = 1 THEN good(YamlScalar(c[1]))
              ELSE good(PyStr(JoinLines(c))))

\* ------------------------------------------------------------------ re.compile
\* The scan of a pattern: depth counts the open groups, last is what a "*"
\* would repeat ("start": nothing, "atom": an item, "rep": a repeat).
RECURSIVE ReScan(_, _, _)
ReScan(p, depth, last) ==
    IF p = <<>> THEN depth = 0
    ELSE IF p[1] = "(" THEN ReScan(Tail(p), depth + 1, "start")
    ELSE IF p[1] = ")" THEN depth > 0 /\ ReScan(Tail(p), depth - 1, "atom")
    ELSE IF p[1] = "*" THEN last = "atom" /\ ReScan(Tail(p), depth, "rep")
    ELSE ReScan(Tail(p), depth, "atom")

\* TRUE when re.compile(p) returns, FALSE when it raises re.error.
re_compile(p) == ReScan(p, 0, "start")

\* ------------------------------------------------------------------ dictionaries
EmptyDict == [k \in {} |-> 0]
Has(d, k) == k \in DOMAIN d
Put(d, k, v) == (k :> v) @@ d
\* dict.get(k): None when the key is missing.
Get(d, k) == IF Has(d, k) THEN d[k] ELSE PyNone

\* ------------------------------------------------------------------ state
VARIABLES
    form,          \* the form class of the request
    post,          \* the submitted data: field name -> raw value
    cleaned_data,  \* self.cleaned_data
    errors,        \* self._errors, as a set of <<field, message>>
    raised,        \* the ValidationError clean() raised, as <<field, message>> pairs
    exc,           \* an exception no handler of the form pipeline catches
    calls,         \* the library functions clean() has called
    pc,            \* the position in the form's construction and full_clean()
    kwargs,        \* the keyword arguments a model form is constructed with
    dicts,         \* the dictionaries alive, by identity (kwargs.initial names one)
    super_initial, \* the identity of kwargs["initial"] as super().__init__ gets it
    form_initial,  \* self.initial
    instance_attr, \* self.instance.address (resp. .prefix)
    model_saw,     \* the attribute as Model.clean() read it
    form_model,    \* DynamicFilterForm.model, the class attribute
    formsets,      \* the formsets dynamic_formset_factory has returned
    base_fields,   \* the fields a form class declares
    fields         \* self.fields of the constructed form

vValidate == <<form, post, cleaned_data, errors, raised, exc, calls, pc>>
vMixin == <<kwargs, dicts, super_initial, form_initial, instance_attr, model_saw>>
vFilter == <<form_model, formsets>>
vBootstrap == <<base_fields, fields>>
vars == <<vValidate, vMixin, vFilter, vBootstrap>>

\* A value not set yet.
Unset == [type |-> "unset", v |-> <<>>]

\* The variables a specification does not use stay as they are here.
IdleValidate ==
    /\ post = EmptyDict /\ cleaned_data = EmptyDict /\ errors = {} /\ raised = {}
    /\ exc = "none" /\ calls = {}
IdleMixin ==
    /\ kwargs = EmptyDict /\ dicts = <<>> /\ super_initial = 0
    /\ form_initial = EmptyDict /\ instance_attr = Unset /\ model_saw = Unset
IdleFilter == form_model = "" /\ formsets = <<>>
IdleBootstrap == base_fields = EmptyDict /\ fields = EmptyDict

\* ------------------------------------------------------------------ messages
Required == "This field is required."
InvalidChoice == "Select a valid choice."
InvalidRegex == "Invalid regular expression"
OneObject == "Import is limited to one object at a time."
InvalidJSON == "Invalid JSON data"
InvalidYAML == "Invalid YAML data"

\* ------------------------------------------------------------------ fields
\* forms.CharField(): required, and strip=True by default.
CharFieldClean(p, name) ==
    LET value == IF Has(p, name) THEN Strip(p[name]) ELSE <<>>
    IN  IF value = <<>> THEN [ok |-> FALSE, msg |-> Required, val |-> PyNone]
        ELSE [ok |-> TRUE, msg |-> "", val |-> PyStr(value)]

\* format = forms.ChoiceField(choices=(("json", "JSON"), ("yaml", "YAML")))
FormatChoices == {"json", "yaml"}
ChoiceFieldClean(p, name) ==
    IF ~Has(p, name) \/ (Has(p, name) /\ p[name] = "")
    THEN [ok |-> FALSE, msg |-> Required, val |-> ""]
    ELSE IF p[name] \notin FormatChoices THEN [ok |-> FALSE, msg |-> InvalidChoice, val |-> ""]
    ELSE [ok |-> TRUE, msg |-> "", val |-> p[name]]

\* use_regex = forms.BooleanField(required=False): a missing box is False.
BooleanFieldClean(p, name) ==
    [ok |-> TRUE, msg |-> "", val |-> Has(p, name) /\ p[name] \notin {"false", "False", "0"}]

FieldNames(f) ==
    IF f = "ImportForm" THEN <<"data", "format">> ELSE <<"find", "replace", "use_regex">>

FieldClean(f, p, name) ==
    IF name \in {"data", "find", "replace"} THEN CharFieldClean(p, name)
    ELSE IF name = "format" THEN ChoiceFieldClean(p, name)
    ELSE BooleanFieldClean(p, name)

\* BaseForm.add_error(field, message): the field leaves cleaned_data.
AddErrors(cd, errs, new) ==
    [cleaned_data |-> [k \in DOMAIN cd \ {e[1] : e \in new} |-> cd[k]],
     errors |-> errs \cup new]

\* ------------------------------------------------------------------ clean()
\* What a clean() leaves behind: self.cleaned_data, the ValidationError it
\* raised (no pairs: none), an exception of another kind, the library calls made.
Returned(cd, lib) == [cleaned_data |-> cd, raised |-> {}, exc |-> "none", calls |-> lib]
Raised(cd, field, msg, lib) ==
    [cleaned_data |-> cd, raised |-> {<<field, msg>>}, exc |-> "none", calls |-> lib]
Threw(cd, e, lib) == [cleaned_data |-> cd, raised |-> {}, exc |-> e, calls |-> lib]

\* ImportFormCleanJson without the isinstance check.
ImportFormCleanJson_NoDictCheck(cd) ==
    LET r == json_loads(cd["data"].v)
    IN  IF ~r.ok THEN Raised(cd, "data", InvalidJSON, {"json.loads"})
        ELSE Returned(Put(cd, "data", r.val), {"json.loads"})

\* ImportForm.clean, the branch format == "json".
ImportFormCleanJson(cd) ==
    LET data == cd["data"].v
        r == json_loads(data)
        lib == {"json.loads"}
    IN  IF ~r.ok THEN Raised(cd, "data", InvalidJSON, lib)
        ELSE IF ~IsDict(r.val) THEN Raised(Put(cd, "data", r.val), "data", OneObject, lib)
        ELSE Returned(Put(cd, "data", r.val), lib)

\* ImportFormCleanYaml with the parser run before the separator check.
ImportFormCleanYaml_ParseFirst(cd) ==
    LET data == cd["data"].v
        r == yaml_load(data)
    IN  IF ~r.ok THEN Raised(cd, "data", InvalidYAML, {"yaml.load"})
        ELSE IF Contains(data, <<NL, "-", "-", "-">>)
             THEN Raised(Put(cd, "data", r.val), "data", OneObject, {"yaml.load"})
        ELSE Returned(Put(cd, "data", r.val), {"yaml.load"})

\* ImportForm.clean, the else branch (YAML).
ImportFormCleanYaml(cd) ==
    LET data == cd["data"].v
        r == yaml_load(data)
        lib == {"yaml.load"}
    IN  IF Contains(data, <<NL, "-", "-", "-">>) THEN Raised(cd, "data", OneObject, {})
        ELSE IF ~r.ok THEN Raised(cd, "data", InvalidYAML, lib)
        ELSE Returned(Put(cd, "data", r.val), lib)

\* ImportForm.clean
ImportFormClean(cd) ==
    IF ~Has(cd, "data") \/ ~Has(cd, "format") THEN Threw(cd, "KeyError", {})
    ELSE IF cd["format"] = "json" THEN ImportFormCleanJson(cd)
    ELSE ImportFormCleanYaml(cd)

\* BulkRenameFormClean compiling whatever use_regex says.
BulkRenameFormClean_AlwaysCompile(cd) ==
    IF ~Has(cd, "use_regex") \/ ~Has(cd, "find") THEN Threw(cd, "KeyError", {})
    ELSE IF re_compile(cd["find"].v) THEN Returned(cd, {"re.compile"})
    ELSE Raised(cd, "find", InvalidRegex, {"re.compile"})

\* BulkRenameForm.clean
BulkRenameFormClean(cd) ==
    IF ~Has(cd, "use_regex") THEN Threw(cd, "KeyError", {})
    ELSE IF ~cd["use_regex"] THEN Returned(cd, {})
    ELSE IF ~Has(cd, "find") THEN Threw(cd, "KeyError", {})
    ELSE IF re_compile(cd["find"].v) THEN Returned(cd, {"re.compile"})
    ELSE Raised(cd, "find", InvalidRegex, {"re.compile"})

\* ------------------------------------------------------------------ inputs
\* The lines a submitted body is made of.
Lines ==
    {<<"{", "\"", "a", "\"", ":", "1", "}">>, <<"[", "1", "]">>, <<"1">>,
     <<"n", "u", "l", "l">>, <<"\"", "a", "\"">>, <<"a", ":", " ", "1">>,
     <<"-", " ", "1">>, <<"-", "-", "-">>, <<"{">>, <<>>}

Bodies == {JoinLines(ls) : ls \in UNION {[1..n -> Lines] : n \in 0..MaxLines}}

FindAlphabet == {"a", "(", ")", "*", " "}
Finds == UNION {[1..n -> FindAlphabet] : n \in 0..MaxFind}

\* Every subset of the named fields may be missing from the submission.
ImportPosts ==
    {d @@ f : d \in {EmptyDict} \cup {"data" :> b : b \in Bodies},
              f \in {EmptyDict} \cup {"format" :> x : x \in {"json", "yaml", "xml", ""}}}

RenamePosts ==
    {(f @@ r) @@ u : f \in {EmptyDict} \cup {"find" :> x : x \in Finds},
                     r \in {EmptyDict} \cup {"replace" :> x : x \in {<<>>, <<"b">>}},
                     u \in {EmptyDict} \cup {"use_regex" :> x : x \in {"on", "false"}}}

\* ------------------------------------------------------------------ full_clean
\* A bound form, before is_valid() is asked.
InitValidate ==
    /\ form \in {"ImportForm", "BulkRenameForm"}
    /\ post \in IF form = "ImportForm" THEN ImportPosts ELSE RenamePosts
    /\ cleaned_data = EmptyDict
    /\ errors = {}
    /\ raised = {}
    /\ exc = "none"
    /\ calls = {}
    /\ pc = "bound"
    /\ IdleMixin /\ IdleFilter /\ IdleBootstrap

\* BaseForm._clean_fields: each field cleans its own value.
CleanFields ==
    /\ pc = "bound"
    /\ LET names == FieldNames(form)
           res == [i \in 1..Len(names) |-> FieldClean(form, post, names[i])]
           good == {i \in 1..Len(names) : res[i].ok}
       IN  /\ cleaned_data' = [k \in {names[i] : i \in good} |->
                                  res[CHOOSE i \in good : names[i] = k].val]
           /\ errors' = {<<names[i], res[i].msg>> : i \in (1..Len(names)) \ good}
    /\ pc' = "fields_cleaned"
    /\ UNCHANGED <<form, post, raised, exc, calls, vMixin, vFilter, vBootstrap>>

\* BaseForm._clean_form calls self.clean().
Clean ==
    /\ pc = "fields_cleaned"
    /\ LET r == IF form = "ImportForm" THEN ImportFormClean(cleaned_data)
                ELSE BulkRenameFormClean(cleaned_data)
       IN  /\ cleaned_data' = r.cleaned_data
           /\ raised' = r.raised
           /\ exc' = r.exc
           /\ calls' = r.calls
    /\ pc' = "clean_returned"
    /\ UNCHANGED <<form, post, errors, vMixin, vFilter, vBootstrap>>

\* BaseForm._clean_form: `except ValidationError as e: self.add_error(None, e)`;
\* any other exception leaves full_clean().
CleanFormHandle ==
    /\ pc = "clean_returned"
    /\ LET r == AddErrors(cleaned_data, errors, raised)
       IN  /\ cleaned_data' = IF exc = "none" THEN r.cleaned_data ELSE cleaned_data
           /\ errors' = IF exc = "none" THEN r.errors ELSE errors
    /\ raised' = {}
    /\ pc' = "done"
    /\ UNCHANGED <<form, post, exc, calls, vMixin, vFilter, vBootstrap>>

NextValidate == CleanFields \/ Clean \/ CleanFormHandle

SpecValidate == InitValidate /\ [][NextValidate]_vars

\* form.is_valid() returned True.
IsValid == pc = "done" /\ exc = "none" /\ errors = {}

\* ------------------------------------------------------------------ claims on validation
\* The value a text field hands to clean(): the submitted text, stripped.
Submitted(name) == CharFieldClean(post, name)
SubmittedFormat == IF Has(post, "format") THEN post["format"] ELSE ""
Text_a1 == <<"{", "\"", "a", "\"", ":", "1", "}">>
Text_TwoDocs == <<"a", ":", " ", "1", NL, "-", "-", "-", NL, "a", ":", " ", "1">>

\* C1: whatever is submitted to BulkRenameForm or ImportForm, validation ends
\* with field errors and never with an exception that no handler catches.
C1_NoUnhandledException == pc \in {"clean_returned", "done"} => exc = "none"

\* C2: an ImportForm that validates holds a mapping as its cleaned data, in
\* either format.
C2_ValidImportIsMapping ==
    (form = "ImportForm" /\ IsValid) => IsDict(cleaned_data["data"])

\* C4: format=json with a non-empty data value: a body that decodes to a
\* mapping validates and the cleaned data is the decoded mapping; a body that
\* decodes to anything else fails with the one-object error on data; a body
\* that does not decode fails with the invalid-JSON error on data.
C4_JsonOutcome ==
    (form = "ImportForm" /\ pc = "done" /\ SubmittedFormat = "json" /\ Submitted("data").ok) =>
        LET body == Submitted("data").val.v
            r == json_loads(body)
        IN  /\ exc = "none"
            /\ (r.ok /\ IsDict(r.val)) => (errors = {} /\ cleaned_data["data"] = r.val)
            /\ (r.ok /\ ~IsDict(r.val)) => errors = {<<"data", OneObject>>}
            /\ ~r.ok => errors = {<<"data", InvalidJSON>>}
            /\ body = Text_a1 =>
                  (errors = {} /\ cleaned_data["data"] = PyDict(<< << <<"a">>, PyInt(1) >> >>))
            /\ body = <<"[", "1", "]">> => errors = {<<"data", OneObject>>}
            /\ body = <<"{">> => errors = {<<"data", InvalidJSON>>}

C4_Witness ==
    /\ form = "ImportForm" /\ pc = "done" /\ SubmittedFormat = "json"
    /\ Has(post, "data") /\ post["data"] = Text_a1
    /\ IsValid /\ IsDict(cleaned_data["data"])

C6_RegexOutcome ==
    (form = "BulkRenameForm" /\ pc = "done" /\ Submitted("find").ok /\ Submitted("replace").ok) =>
        LET find == Submitted("find").val.v
            use_regex == BooleanFieldClean(post, "use_regex").val
        IN  /\ exc = "none"
            /\ use_regex =>
                  /\ (<<"find", InvalidRegex>> \in errors) <=> ~re_compile(find)
                  /\ re_compile(find) => errors = {}
            /\ ~use_regex => ("re.compile" \notin calls /\ errors = {})
            /\ (use_regex /\ find \in {<<"(">>, <<"*">>, <<"a", ")">>}) =>
                  errors = {<<"find", InvalidRegex>>}
            /\ (use_regex /\ find \in {<<"a", "*">>, <<"(", "a", ")">>}) => errors = {}

C6_Witness ==
    /\ form = "BulkRenameForm" /\ pc = "done"
    /\ Has(post, "find") /\ post["find"] = <<"(", "a">>
    /\ Has(post, "replace") /\ post["replace"] = <<"b">>
    /\ Has(post, "use_regex") /\ post["use_regex"] = "on"
    /\ errors = {<<"find", InvalidRegex>>} /\ "re.compile" \in calls

\* ================================================================== the computed-field mixins
\* address = IPNetworkFormField() (resp. prefix): the text "<host>/<length>"
\* becomes a network value; anything else is a validation error.
InvalidNetwork == "Please specify a valid IPv4 or IPv6 address."
PyNet(host, length) == [type |-> "net", v |-> <<host, length>>]
IPNetworkFormFieldClean(p, name) ==
    LET value == IF Has(p, name) THEN Strip(p[name]) ELSE <<>>
    IN  IF value = <<>> THEN [ok |-> FALSE, msg |-> Required, val |-> PyNone]
        ELSE IF Len(value) = 3 /\ value[1] \in Digits /\ value[2] = "/" /\ value[3] \in Digits
             THEN [ok |-> TRUE, msg |-> "",
                   val |-> PyNet(DigitVal(value[1]), DigitVal(value[3]))]
        ELSE [ok |-> FALSE, msg |-> InvalidNetwork, val |-> PyNone]

\* The field a mixin adds, which is also the computed attribute it patches.
MixinKey(f) == IF f = "AddressFieldMixin" THEN "address" ELSE "prefix"

\* What __init__ of a mixin leaves: the dictionaries alive and the identity
\* of the one it hands to super().__init__ as kwargs["initial"].
\* kw.initial is the identity of the caller's dictionary (0: none passed);
\* kw.instance is None or an object with the computed attribute.

\* __init__ patching the caller's dictionary itself (no .copy()).
AddressFieldMixinInit_NoCopy(kw, heap) ==
    LET src == IF kw.initial = 0 THEN EmptyDict ELSE heap[kw.initial]
        initial == IF ~Has(src, "address") /\ kw.instance.given
                   THEN Put(src, "address", kw.instance.address) ELSE src
    IN  IF kw.initial = 0 THEN [dicts |-> Append(heap, initial), initial |-> Len(heap) + 1]
        ELSE [dicts |-> [heap EXCEPT ![kw.initial] = initial], initial |-> kw.initial]

\* AddressFieldMixin.__init__
AddressFieldMixinInit(kw, heap) ==
    LET copy == IF kw.initial = 0 THEN EmptyDict ELSE heap[kw.initial]
        initial == IF ~Has(copy, "address") /\ kw.instance.given
                   THEN Put(copy, "address", kw.instance.address) ELSE copy
    IN  [dicts |-> Append(heap, initial), initial |-> Len(heap) + 1]

\* PrefixFieldMixin.__init__
PrefixFieldMixinInit(kw, heap) ==
    LET copy == IF kw.initial = 0 THEN EmptyDict ELSE heap[kw.initial]
        initial == IF ~Has(copy, "prefix") /\ kw.instance.given
                   THEN Put(copy, "prefix", kw.instance.prefix) ELSE copy
    IN  [dicts |-> Append(heap, initial), initial |-> Len(heap) + 1]

\* clean() of a mixin that leaves the instance alone.
AddressFieldMixinClean_NoWrite(cd, attr) == attr

\* AddressFieldMixin.clean: the new value of self.instance.address.
AddressFieldMixinClean(cd, attr) == Get(cd, "address")

\* PrefixFieldMixin.clean: the new value of self.instance.prefix.
PrefixFieldMixinClean(cd, attr) == Get(cd, "prefix")

\* ------------------------------------------------------------------ inputs
Networks == {PyNet(1, 8), PyNet(2, 8)}
NetworkTexts == {<<>>, <<" ">>, <<"x">>, <<"1", "/", "8">>, <<"2", "/", "8">>}

\* instance=None, or an object whose computed attribute is unset or a network.
Instances(key) ==
    {[given |-> FALSE]} \cup
    {(key :> a) @@ [given |-> TRUE] : a \in {PyNone} \cup Networks}

\* The caller's initial: a dictionary with any of the keys.
Initials(key) ==
    {k @@ o : k \in {EmptyDict} \cup {key :> a : a \in Networks},
              o \in {EmptyDict} \cup {"status" :> PyStr(<<"s">>)}}

\* ------------------------------------------------------------------ construction and full_clean
InitMixin ==
    /\ form \in {"AddressFieldMixin", "PrefixFieldMixin"}
    /\ \E inst \in Instances(MixinKey(form)) :
         \/ /\ dicts = <<>>
            /\ kwargs = [instance |-> inst, initial |-> 0]
         \/ /\ dicts \in {<<d>> : d \in Initials(MixinKey(form))}
            /\ kwargs = [instance |-> inst, initial |-> 1]
    /\ post \in {EmptyDict} \cup {MixinKey(form) :> t : t \in NetworkTexts}
    /\ super_initial = 0
    /\ form_initial = EmptyDict
    /\ instance_attr = Unset
    /\ model_saw = Unset
    /\ cleaned_data = EmptyDict /\ errors = {} /\ raised = {} /\ exc = "none" /\ calls = {}
    /\ pc = "new"
    /\ IdleFilter /\ IdleBootstrap

\* The form is constructed: the mixin's __init__, then BaseModelForm.__init__,
\* which takes the instance (a new object when None) and lays kwargs["initial"]
\* over the instance's own fields.
MixinConstruct ==
    /\ pc = "new"
    /\ LET r == IF form = "AddressFieldMixin" THEN AddressFieldMixinInit(kwargs, dicts)
                ELSE PrefixFieldMixinInit(kwargs, dicts)
       IN  /\ dicts' = r.dicts
           /\ super_initial' = r.initial
           /\ form_initial' = r.dicts[r.initial]
    /\ instance_attr' = IF kwargs.instance.given THEN kwargs.instance[MixinKey(form)]
                        ELSE PyNone
    /\ pc' = "bound"
    /\ UNCHANGED <<form, post, cleaned_data, errors, raised, exc, calls, kwargs, model_saw,
                   vFilter, vBootstrap>>

\* BaseForm._clean_fields
MixinCleanFields ==
    /\ pc = "bound"
    /\ LET r == IPNetworkFormFieldClean(post, MixinKey(form))
       IN  /\ cleaned_data' = IF r.ok THEN MixinKey(form) :> r.val ELSE EmptyDict
           /\ errors' = IF r.ok THEN {} ELSE {<<MixinKey(form), r.msg>>}
    /\ pc' = "fields_cleaned"
    /\ UNCHANGED <<form, post, raised, exc, calls, vMixin, vFilter, vBootstrap>>

\* BaseForm._clean_form calls self.clean()
MixinClean ==
    /\ pc = "fields_cleaned"
    /\ instance_attr' = IF form = "AddressFieldMixin"
                        THEN AddressFieldMixinClean(cleaned_data, instance_attr)
                        ELSE PrefixFieldMixinClean(cleaned_data, instance_attr)
    /\ pc' = "clean_returned"
    /\ UNCHANGED <<form, post, cleaned_data, errors, raised, exc, calls, kwargs, dicts,
                   super_initial, form_initial, model_saw, vFilter, vBootstrap>>

\* BaseModelForm._post_clean: self.instance.full_clean() runs Model.clean().
MixinPostClean ==
    /\ pc = "clean_returned"
    /\ model_saw' = instance_attr
    /\ pc' = "done"
    /\ UNCHANGED <<form, post, cleaned_data, errors, raised, exc, calls, kwargs, dicts,
                   super_initial, form_initial, instance_attr, vFilter, vBootstrap>>

NextMixin == MixinConstruct \/ MixinCleanFields \/ MixinClean \/ MixinPostClean

SpecMixin == InitMixin /\ [][NextMixin]_vars

\* ------------------------------------------------------------------ claims on the mixins
\* C7: in every validation run of a form using a mixin, the validated input
\* is on the instance before Model.clean() runs: what the model reads is the
\* cleaned value (None when the field did not validate), whatever the
\* instance held before.
C7_WrittenBeforeModelClean ==
    /\ pc = "done" =>
          LET r == IPNetworkFormFieldClean(post, MixinKey(form))
          IN  model_saw = IF r.ok THEN r.val ELSE PyNone
    /\ pc \in {"new", "bound", "fields_cleaned", "clean_returned"} => model_saw = Unset
    /\ pc = "clean_returned" => instance_attr = Get(cleaned_data, MixinKey(form))

C7_Witness ==
    /\ pc = "done" /\ form = "AddressFieldMixin"
    /\ kwargs.instance.given /\ kwargs.instance["address"] = PyNet(1, 8)
    /\ Has(post, "address") /\ post["address"] = <<"2", "/", "8">>
    /\ model_saw = PyNet(2, 8)

\* The form's initial after construction, against what the caller passed.
InitialSeeded ==
    pc # "new" =>
        LET key == MixinKey(form)
            passed == kwargs.initial # 0
            callers == IF passed THEN dicts[kwargs.initial] ELSE EmptyDict
            seeded == kwargs.instance.given /\ ~Has(callers, key)
        IN  /\ seeded => (Has(form_initial, key) /\ form_initial[key] = kwargs.instance[key])
            /\ Has(callers, key) => (Has(form_initial, key) /\ form_initial[key] = callers[key])
            /\ (~seeded /\ ~Has(callers, key)) => ~Has(form_initial, key)
            /\ \A k \in DOMAIN callers \ {key} : Has(form_initial, k) /\ form_initial[k] = callers[k]
            /\ passed => (super_initial # kwargs.initial /\ dicts[kwargs.initial] \in Initials(key))

\* The caller's dictionary as it was passed, which no step changes.
CallerUnchanged ==
    [][kwargs.initial # 0 => dicts'[kwargs.initial] = dicts[kwargs.initial]]_vars

\* C10: construction seeds the form's initial value of the key from the
\* instance exactly when an instance is given and the caller's initial has no
\* such key; a value the caller passed is kept; the caller's own dictionary
\* is not changed (the seeding is done on a copy).
C10_SeededOnCopy == []InitialSeeded /\ CallerUnchanged

C10_Witness ==
    /\ pc = "bound" /\ form = "PrefixFieldMixin"
    /\ kwargs.instance.given /\ kwargs.instance["prefix"] = PyNet(1, 8)
    /\ kwargs.initial = 1 /\ ~Has(dicts[1], "prefix") /\ Has(dicts[1], "status")
    /\ Has(form_initial, "prefix") /\ form_initial["prefix"] = PyNet(1, 8)

\* ================================================================== BootstrapMixin
\* A field: [field, widget, attrs, required, label, choices].  A class
\* attribute is text whose words are single items and whose blanks are " ".
Field(kind, widget, attrs, required, label) ==
    [field |-> kind, widget |-> widget, attrs |-> attrs, required |-> required,
     label |-> label, choices |-> <<>>]

\* exempt_widgets, matched on the widget's own class.
ExemptWidgets == {"CheckboxInput", "ClearableFileInput", "FileInput", "RadioSelect"}
\* isinstance(widget, forms.FileInput); UploadInput stands for a subclass of FileInput.
IsFileInput(w) == w \in {"FileInput", "ClearableFileInput", "UploadInput"}

\* " ".join([a, b])
JoinBlank(a, b) == a \o <<" ">> \o b

\* The loop body with the class set without .strip().
BootstrapField_NoStrip(f) ==
    LET a1 == IF f.widget \notin ExemptWidgets
              THEN Put(f.attrs, "class",
                       JoinBlank(IF Has(f.attrs, "class") THEN f.attrs["class"] ELSE <<>>,
                                 <<"form-control">>))
              ELSE f.attrs
        a2 == IF f.required /\ ~IsFileInput(f.widget) THEN Put(a1, "required", "required") ELSE a1
        a3 == IF ~Has(a2, "placeholder") THEN Put(a2, "placeholder", f.label) ELSE a2
    IN  [f EXCEPT !.attrs = a3]

\* BootstrapMixin.__init__, the body of the loop over self.fields.
BootstrapField(f) ==
    LET css == IF Has(f.attrs, "class") THEN f.attrs["class"] ELSE <<>>
        a1 == IF f.widget \notin ExemptWidgets
              THEN Put(f.attrs, "class", Strip(JoinBlank(css, <<"form-control">>)))
              ELSE f.attrs
        a2 == IF f.required /\ ~IsFileInput(f.widget) THEN Put(a1, "required", "required") ELSE a1
        a3 == IF ~Has(a2, "placeholder") THEN Put(a2, "placeholder", f.label) ELSE a2
    IN  [f EXCEPT !.attrs = a3]

\* BootstrapMixin.__init__: super().__init__() copies the declared fields,
\* then every field is styled.
BootstrapMixinInit(declared) == [n \in DOMAIN declared |-> BootstrapField(declared[n])]

\* ------------------------------------------------------------------ the forms of the module
ImportFormFields ==
    ("data" :> Field("CharField", "Textarea", EmptyDict, TRUE, PyStr(<<>>))) @@
    ("format" :> Field("ChoiceField", "Select", EmptyDict, TRUE, PyNone))

ConfirmationFormFields ==
    ("return_url" :> Field("CharField", "HiddenInput", EmptyDict, FALSE, PyNone)) @@
    ("confirm" :> Field("BooleanField", "HiddenInput", EmptyDict, TRUE, PyNone))

DynamicFilterFormFields ==
    ("lookup_field" :> Field("ChoiceField", "Select", EmptyDict, FALSE, PyStr(<<"Field">>))) @@
    ("lookup_type" :> Field("ChoiceField", "Select", EmptyDict, FALSE, PyNone)) @@
    ("value" :> Field("CharField", "TextInput", EmptyDict, FALSE, PyNone))

\* ================================================================== DynamicFilterForm
\* The data models: model._meta.app_label + "." + model._meta.model_name.
Models == {"dcim.site", "ipam.vlan"}

\* get_filterset_for_model(model).base_filters: name -> [label, field_name], in order.
Filter(name, label, field_name) == [name |-> name, label |-> label, field_name |-> field_name]
BaseFilters(model) ==
    IF model = "dcim.site"
    THEN <<Filter(<<"n", "a", "m", "e">>, PyNone, <<"n", "a", "m", "e">>),
           Filter(<<"n", "a", "m", "e", "_", "_", "i", "c">>, PyNone, <<"n", "a", "m", "e">>),
           Filter(<<"a", "s", "n">>, PyStr(<<"A", "S", "N">>), <<"a", "s", "n">>)>>
    ELSE <<Filter(<<"v", "i", "d">>, PyStr(<<"I", "D">>), <<"v", "i", "d">>),
           Filter(<<"v", "_", "n", "a", "m", "e">>, PyNone, <<"v", "_", "n", "a", "m", "e">>)>>

\* get_filterset_field_data(model, field_name, choice)
FieldData(model, field_name) ==
    IF field_name = "status"
    THEN (IF model = "dcim.site"
          THEN [type |-> "dynamic-choices", choices |-> <<>>, allow_multiple |-> TRUE,
                data_url |-> "/api/extras/statuses/", content_type |-> model]
          ELSE [type |-> "static-choices", choices |-> <<"active", "reserved">>,
                allow_multiple |-> TRUE, data_url |-> "", content_type |-> ""])
    ELSE IF field_name = "has_vlans" /\ model = "dcim.site"
    THEN [type |-> "static-choices", choices |-> <<"True", "False">>,
          allow_multiple |-> FALSE, data_url |-> "", content_type |-> ""]
    ELSE [type |-> "others", choices |-> <<>>, allow_multiple |-> FALSE,
          data_url |-> "", content_type |-> ""]

\* build_lookup_label(lookup)
build_lookup_label(lookup) == <<"label of", lookup>>

\* str.upper() of a letter.
Upper(c) ==
    IF c = "n" THEN "N" ELSE IF c = "a" THEN "A" ELSE IF c = "v" THEN "V" ELSE c

RECURSIVE SplitOn(_, _)
\* s.split(sep) for a one-character separator.
SplitOn(s, sep) ==
    LET brk == {i \in 1..Len(s) : s[i] = sep}
    IN  IF brk = {} THEN <<s>>
        ELSE <<SubSeq(s, 1, Min(brk) - 1)>> \o SplitOn(SubSeq(s, Min(brk) + 1, Len(s)), sep)

RECURSIVE JoinWords(_)
\* " ".join(words)
JoinWords(ws) ==
    IF ws = <<>> THEN <<>>
    ELSE IF Len(ws) = 1 THEN ws[1]
    ELSE ws[1] \o <<" ">> \o JoinWords(Tail(ws))

\* DynamicFilterForm.capitalize
capitalize(field) ==
    LET data == SplitOn(field, "_")
        first_word == <<Upper(data[1][1])>> \o Tail(data[1])
    IN  JoinWords(<<first_word>> \o Tail(data))

\* DynamicFilterForm.get_lookup_expr_choices, for self.model = model.
get_lookup_expr_choices(model) ==
    LET filterset == BaseFilters(model)
        plain == SelectSeq(filterset, LAMBDA f : ~Contains(f.name, <<"_", "_">>))
    IN  [i \in 1..Len(plain) |->
            <<plain[i].name,
              IF plain[i].label # PyNone THEN plain[i].label.v
              ELSE capitalize(plain[i].field_name)>>]

\* QueryDict.getlist(key): the empty list for a missing key.
GetList(data, key) == IF key \in DOMAIN data THEN data[key] ELSE <<>>

\* kwargs.get(name), with None and a missing key both falsy.
KwTruthy(kw, name) ==
    Has(kw, name) /\ (IF name = "data" THEN DOMAIN kw[name] # {} ELSE kw[name] # <<>>)

\* DynamicFilterForm.select_or_input_data: the field self.fields["value"] becomes.
select_or_input_data(model, field_name, choice, value) ==
    LET data == FieldData(model, field_name)
    IN  IF data.type = "static-choices"
        THEN [field |-> "ChoiceField", widget |-> "StaticSelect2",
              attrs |-> (IF data.allow_multiple THEN "multiple" :> "true" ELSE EmptyDict)
                        @@ ("class" :> <<"nautobot-select2-static">>),
              required |-> FALSE, label |-> PyNone, choices |-> data.choices]
        ELSE IF data.type = "dynamic-choices"
        THEN [field |-> "ChoiceField", widget |-> "APISelectMultiple",
              attrs |-> (IF data.content_type # ""
                         THEN "data-query-param-content_types" :> data.content_type
                         ELSE EmptyDict)
                        @@ ("class" :> <<"nautobot-select2-api">>)
                        @@ ("data-url" :> data.data_url),
              required |-> FALSE, label |-> PyNone, choices |-> data.choices]
        ELSE value

\* The bound-data block of __init__ calling select_or_input_data on a lookup
\* type alone, whatever the value list holds.
DynamicFilterFormBound_NoValueCheck(kw, model, fs) ==
    IF KwTruthy(kw, "data") /\ KwTruthy(kw, "prefix")
    THEN LET lookup_type == GetList(kw["data"], kw["prefix"] \o <<"-lookup_type">>)
             lookup_value == GetList(kw["data"], kw["prefix"] \o <<"-value">>)
             f1 == IF lookup_type # <<>>
                   THEN [fs EXCEPT !["lookup_type"].choices =
                             <<<<lookup_type[1], build_lookup_label(lookup_type[1])>>>>]
                   ELSE fs
         IN  IF lookup_type # <<>>
             THEN [f1 EXCEPT !["value"] =
                       select_or_input_data(model, lookup_type[1], lookup_value, f1["value"])]
             ELSE f1
    ELSE fs

\* DynamicFilterForm.__init__, the block `if data and prefix:`.
DynamicFilterFormBound(kw, model, fs) ==
    IF KwTruthy(kw, "data") /\ KwTruthy(kw, "prefix")
    THEN LET lookup_type == GetList(kw["data"], kw["prefix"] \o <<"-lookup_type">>)
             lookup_value == GetList(kw["data"], kw["prefix"] \o <<"-value">>)
             f1 == IF lookup_type # <<>>
                   THEN [fs EXCEPT !["lookup_type"].choices =
                             <<<<lookup_type[1], build_lookup_label(lookup_type[1])>>>>]
                   ELSE fs
         IN  IF lookup_type # <<>> /\ lookup_value # <<>>
             THEN [f1 EXCEPT !["value"] =
                       select_or_input_data(model, lookup_type[1], lookup_value, f1["value"])]
             ELSE f1
    ELSE fs

\* DynamicFilterForm.__init__ with keyword arguments kw while the class
\* attribute DynamicFilterForm.model is model: self.fields.
DynamicFilterFormInit(kw, model) ==
    LET contenttype == model
        f0 == BootstrapMixinInit(DynamicFilterFormFields)
        f1 == [f0 EXCEPT !["lookup_field"].choices =
                             <<<<PyNone, PyNone>>>> \o get_lookup_expr_choices(model),
                         !["lookup_field"].attrs =
                             Put(@, "class", <<"nautobot-select2-static", " ", "lookup_field-select">>)]
        f2 == DynamicFilterFormBound(kw, model, f1)
        f3 == [f2 EXCEPT !["lookup_type"].attrs =
                    ("data-query-param-field_name" :> "[\"$lookup_field\"]") @@
                    ("data-contenttype" :> contenttype) @@
                    ("data-url" :> "/lookup-choices/") @@
                    ("class" :> <<"nautobot-select2-api", " ", "lookup_type-select">>) @@ @]
        lookup_value_css == f3["value"].attrs["class"]
    IN  [f3 EXCEPT !["value"].attrs =
            Put(@, "class", JoinBlank(lookup_value_css, <<"value-input", " ", "form-control">>))]

\* ------------------------------------------------------------------ construction of one form
Widgets ==
    {"TextInput", "Textarea", "Select", "HiddenInput", "CheckboxInput",
     "ClearableFileInput", "FileInput", "RadioSelect", "UploadInput"}

\* The fields a form class outside this module may declare: one field, any
\* widget, with or without a class, a placeholder, a label.
DeclaredFields ==
    {"f" :> Field("CharField", w, c @@ h, r, l) :
        w \in Widgets,
        c \in {EmptyDict} \cup {"class" :> x : x \in {<<>>, <<"x">>, <<" ", "x">>, <<"x", " ", "y">>}},
        h \in {EmptyDict, "placeholder" :> PyStr(<<"p">>)},
        r \in BOOLEAN,
        l \in {PyNone, PyStr(<<"L">>)}}

\* A QueryDict holding the lookup type and value lists of the form named by prefix.
QueryDicts(prefix) ==
    {(t @@ v) @@ ((<<"form-", "TOTAL_FORMS">>) :> <<"2">>) :
        t \in {EmptyDict} \cup
              {(prefix \o <<"-lookup_type">>) :> x :
                   x \in {<<"status">>, <<"has_vlans">>, <<"name__ic">>, <<"name__ic", "status">>}},
        v \in {EmptyDict} \cup {(prefix \o <<"-value">>) :> x : x \in {<<"a">>, <<"">>}}}

\* The keyword arguments DynamicFilterForm may be constructed with.
FormKwargs ==
    {d @@ q : d \in {EmptyDict} \cup
                    {"data" :> x : x \in {EmptyDict} \cup QueryDicts(<<"form-", "0">>)
                                                     \cup QueryDicts(<<>>)},
              q \in {EmptyDict} \cup {"prefix" :> x : x \in {<<>>, <<"form-", "0">>}}}

InitConstruct ==
    /\ form \in {"Form", "ImportForm", "ConfirmationForm", "DynamicFilterForm"}
    /\ base_fields \in
          IF form = "Form" THEN DeclaredFields
          ELSE IF form = "ImportForm" THEN {ImportFormFields}
          ELSE IF form = "ConfirmationForm" THEN {ConfirmationFormFields}
          ELSE {DynamicFilterFormFields}
    /\ kwargs \in IF form = "DynamicFilterForm" THEN FormKwargs ELSE {EmptyDict}
    /\ form_model \in IF form = "DynamicFilterForm" THEN Models ELSE {""}
    /\ fields = EmptyDict
    /\ pc = "new"
    /\ IdleValidate
    /\ dicts = <<>> /\ super_initial = 0 /\ form_initial = EmptyDict
    /\ instance_attr = Unset /\ model_saw = Unset
    /\ formsets = <<>>

\* A form whose construction ends with BootstrapMixin.__init__.
BootstrapConstruct ==
    /\ pc = "new"
    /\ form # "DynamicFilterForm"
    /\ fields' = BootstrapMixinInit(base_fields)
    /\ pc' = "constructed"
    /\ UNCHANGED <<form, post, cleaned_data, errors, raised, exc, calls, vMixin, vFilter,
                   base_fields>>

\* DynamicFilterForm(**kwargs)
DynamicFilterFormConstruct ==
    /\ pc = "new"
    /\ form = "DynamicFilterForm"
    /\ fields' = DynamicFilterFormInit(kwargs, form_model)
    /\ pc' = "constructed"
    /\ UNCHANGED <<form, post, cleaned_data, errors, raised, exc, calls, vMixin, vFilter,
                   base_fields>>

NextConstruct == BootstrapConstruct \/ DynamicFilterFormConstruct

SpecConstruct == InitConstruct /\ [][NextConstruct]_vars

\* ------------------------------------------------------------------ claims on construction
\* What the claim promises of a constructed field f declared as b.
Styled(b, f) ==
    LET prev == IF Has(b.attrs, "class") THEN b.attrs["class"] ELSE <<>>
        joined == prev \o <<" ", "form-control">>
        first == Min({i \in 1..Len(joined) : joined[i] # " "})
    IN  /\ b.widget \notin ExemptWidgets =>
              (Has(f.attrs, "class") /\ f.attrs["class"] = SubSeq(joined, first, Len(joined)))
        /\ (b.required /\ ~IsFileInput(b.widget)) =>
              (Has(f.attrs, "required") /\ f.attrs["required"] = "required")
        /\ Has(f.attrs, "placeholder")
        /\ f.attrs["placeholder"] = IF Has(b.attrs, "placeholder") THEN b.attrs["placeholder"]
                                    ELSE b.label

\* C8 as stated: after constructing any form that uses BootstrapMixin, every
\* field is styled: class, required and placeholder.
C8_EveryFormStyled ==
    pc = "constructed" => \A n \in DOMAIN fields : Styled(base_fields[n], fields[n])

\* C8 amended: after constructing a form whose construction ends with
\* BootstrapMixin.__init__ (every form but DynamicFilterForm, whose own
\* __init__ goes on to rewrite the widgets), every field is styled.
C8_BootstrapStyled ==
    (pc = "constructed" /\ form # "DynamicFilterForm") =>
        \A n \in DOMAIN fields : Styled(base_fields[n], fields[n])

C8_Witness ==
    /\ pc = "constructed" /\ form = "Form"
    /\ base_fields["f"].widget = "TextInput" /\ base_fields["f"].required
    /\ Has(base_fields["f"].attrs, "class") /\ base_fields["f"].attrs["class"] = <<"x">>
    /\ ~Has(base_fields["f"].attrs, "placeholder")
    /\ fields["f"].attrs["class"] = <<"x", " ", "form-control">>
    /\ fields["f"].attrs["required"] = "required"
    /\ fields["f"].attrs["placeholder"] = base_fields["f"].label

\* C9: the value field of a constructed DynamicFilterForm is a static choice
\* widget exactly when data and a prefix are given, the data holds non-empty
\* lookup type and value lists for the prefix, and the field data of the
\* first lookup type is static-choices; an API widget under the same
\* conditions with dynamic-choices; the plain text input otherwise.
C9_ValueWidget ==
    (pc = "constructed" /\ form = "DynamicFilterForm") =>
        LET given == /\ Has(kwargs, "data") /\ Has(kwargs, "prefix")
                     /\ kwargs["prefix"] # <<>>
            types == IF given THEN GetList(kwargs["data"], kwargs["prefix"] \o <<"-lookup_type">>)
                     ELSE <<>>
            values == IF given THEN GetList(kwargs["data"], kwargs["prefix"] \o <<"-value">>)
                      ELSE <<>>
            kind == IF types # <<>> /\ values # <<>>
                    THEN FieldData(form_model, types[1]).type ELSE "none"
            value == fields["value"]
        IN  /\ (value.widget = "StaticSelect2") <=> (kind = "static-choices")
            /\ (value.widget = "APISelectMultiple") <=> (kind = "dynamic-choices")
            /\ (value.widget = "TextInput" /\ value.field = "CharField")
                   <=> (kind \notin {"static-choices", "dynamic-choices"})

C9_Witness ==
    /\ pc = "constructed" /\ form = "DynamicFilterForm" /\ form_model = "ipam.vlan"
    /\ Has(kwargs, "prefix") /\ kwargs["prefix"] = <<"form-", "0">>
    /\ Has(kwargs, "data")
    /\ GetList(kwargs["data"], <<"form-", "0", "-lookup_type">>) = <<"status">>
    /\ GetList(kwargs["data"], <<"form-", "0", "-value">>) = <<"a">>
    /\ fields["value"].widget = "StaticSelect2"

\* ================================================================== dynamic_formset_factory
\* "extra": 3
ExtraForms == 3

DigitStr(i) == <<"0", "1", "2", "3", "4", "5", "6", "7", "8", "9">>[i + 1]

\* BaseFormSet.add_prefix(i): "form-<i>"
add_prefix(i) == <<"form-", DigitStr(i)>>

\* What a caller passes as data: nothing, or the query of a request.
FormsetData ==
    {EmptyDict} \cup
    {(t @@ v) @@ ((<<"form-", "TOTAL_FORMS">>) :> <<"2">>) :
        t \in {EmptyDict} \cup
              {(add_prefix(0) \o <<"-lookup_type">>) :> x : x \in {<<"status">>, <<"name__ic">>}},
        v \in {EmptyDict} \cup {(add_prefix(0) \o <<"-value">>) :> x : x \in {<<"a">>}}}

\* BaseFormSet.total_form_count(): the management form's count when bound,
\* the extra forms otherwise.
total_form_count(fset) ==
    IF fset.bound THEN DigitVal(fset.data[<<"form-", "TOTAL_FORMS">>][1]) ELSE ExtraForms

\* DynamicFilterFormBaseFormSet._construct_form(i): self.form(**defaults),
\* built while the class attribute DynamicFilterForm.model is model.
construct_form(fset, i, model) ==
    LET defaults == ("prefix" :> add_prefix(i)) @@
                    ("use_required_attribute" :> FALSE) @@
                    (IF fset.bound THEN "data" :> fset.data ELSE EmptyDict)
    IN  DynamicFilterFormInit(defaults, model)

InitFormset ==
    /\ form = "DynamicFilterForm"
    /\ form_model = ""
    /\ formsets = <<>>
    /\ pc = "idle"
    /\ IdleValidate /\ IdleMixin /\ IdleBootstrap

\* dynamic_formset_factory(model, data): the class attribute is set, and the
\* formset (class, or instance bound to data) goes back to the caller.
DynamicFormsetFactory(model, data) ==
    /\ Len(formsets) < MaxFormsets
    /\ form_model' = model
    /\ formsets' = Append(formsets, [model |-> model, data |-> data, bound |-> DOMAIN data # {},
                                     built |-> FALSE, forms |-> <<>>])
    /\ UNCHANGED <<vValidate, vMixin, vBootstrap>>

\* BaseFormSet.forms, on first use: every form of formset k is constructed.
FormsetForms(k) ==
    /\ ~formsets[k].built
    /\ formsets' = [formsets EXCEPT
                      ![k].built = TRUE,
                      ![k].forms = [i \in 1..total_form_count(formsets[k]) |->
                                       construct_form(formsets[k], i - 1, form_model)]]
    /\ UNCHANGED <<form_model, vValidate, vMixin, vBootstrap>>

NextFormset ==
    \/ \E model \in Models, data \in FormsetData : DynamicFormsetFactory(model, data)
    \/ \E k \in 1..Len(formsets) : FormsetForms(k)

SpecFormset == InitFormset /\ [][NextFormset]_vars

\* C3: every form of a formset is built for the model that was passed to
\* the dynamic_formset_factory call that made the formset: its content type
\* and its lookup_field choices are that model's.
C3_FormsOfOwnModel ==
    \A k \in 1..Len(formsets) :
        formsets[k].built =>
            \A i \in 1..Len(formsets[k].forms) :
                LET f == formsets[k].forms[i]
                IN  /\ f["lookup_type"].attrs["data-contenttype"] = formsets[k].model
                    /\ f["lookup_field"].choices =
                           <<<<PyNone, PyNone>>>> \o get_lookup_expr_choices(formsets[k].model)

====
